---- MODULE Spec2Model ----
(***************************************************************************)
(* Model of src/app/page.tsx, the AutoTicTacToe React component.           *)
(*                                                                         *)
(* The state is the component's nine useState cells, the browser's pending *)
(* setTimeout entries together with the values their callbacks closed      *)
(* over, and the timer id held by each effect's cleanup function.          *)
(* A step is one browser task: a timer callback or a DOM event handler,    *)
(* followed by the re-render it causes and the effects of that render      *)
(* (cleanup of every effect whose dependencies changed, then their bodies).*)
(* Math.random() is a draw r \in 0..Grain-1 standing for r/Grain.          *)
(* GameMove.timestamp (Date.now()) is read only as a React list key and is *)
(* not carried in moveHistory.                                             *)
(* moveIndex holds the value makeAIMove last returned to makeMove; args and *)
(* checked hold the input and the result of a function called on its own.  *)
(***************************************************************************)
EXTENDS Integers, Sequences, FiniteSets, TLC

VARIABLES board, currentPlayer, status, winner, winningLine, stats,
          isAutoPlaying, gameSpeed, moveHistory,
          moveTimers, restartTimers, moveEffect, restartEffect,
          moveIndex, args, checked

vars == <<board, currentPlayer, status, winner, winningLine, stats,
          isAutoPlaying, gameSpeed, moveHistory,
          moveTimers, restartTimers, moveEffect, restartEffect,
          moveIndex, args, checked>>

gameVars == <<board, currentPlayer, status, winner, winningLine, moveHistory>>

\* ---------------------------------------------------------------- bounds
\* Math.random() takes the values 0/Grain .. (Grain-1)/Grain.
Grain == 9
\* Timer callbacks stop applying moves once this many games are counted.
MaxGames == 2
\* Timer ids are drawn from 1..MaxTimers.
MaxTimers == 3

\* ------------------------------------------------------------ data types
Cells == 0..8
Marks == {"X", "O"}
EmptyBoard == [i \in Cells |-> "null"]
Speeds == {2000, 1000, 500, 200}
RestartDelay == 2000

\* JavaScript values stored in the stats object.
Num(n) == [t |-> "number", n |-> n]
NaN == [t |-> "NaN", n |-> 0]
Undefined == [t |-> "undefined", n |-> 0]
\* a + b on JavaScript values: a number only when both operands are numbers.
JsAdd(a, b) == IF a.t = "number" /\ b.t = "number" THEN Num(a.n + b.n) ELSE NaN
\* obj[key]: undefined when the key is absent.
JsGet(obj, key) == IF key \in DOMAIN obj THEN obj[key] ELSE Undefined
\* {...obj, [key]: v}
JsSet(obj, key, v) == [k \in (DOMAIN obj) \cup {key} |-> IF k = key THEN v ELSE obj[k]]

ZeroStats == [xWins |-> Num(0), oWins |-> Num(0), draws |-> Num(0), gamesPlayed |-> Num(0)]

\* `${newWinner}Wins`
WinsKey(p) == p \o "Wins"

\* ------------------------------------------------------- pure functions
winningCombinations ==
  << <<0, 1, 2>>, <<3, 4, 5>>, <<6, 7, 8>>,
     <<0, 3, 6>>, <<1, 4, 7>>, <<2, 5, 8>>,
     <<0, 4, 8>>, <<2, 4, 6>> >>

RECURSIVE scanCombinations(_, _)
scanCombinations(b, i) ==
  IF i > Len(winningCombinations)
  THEN [winner |-> "null", line |-> << >>]
  ELSE LET c == winningCombinations[i] IN
       IF b[c[1]] # "null" /\ b[c[1]] = b[c[2]] /\ b[c[1]] = b[c[3]]
       THEN [winner |-> b[c[1]], line |-> c]
       ELSE scanCombinations(b, i + 1)

\* checkWinner returning the last uniform combination instead of the first.
checkWinnerLastMatch(b) ==
  LET hits == {i \in 1..Len(winningCombinations) :
                 LET c == winningCombinations[i] IN
                 b[c[1]] # "null" /\ b[c[1]] = b[c[2]] /\ b[c[1]] = b[c[3]]}
  IN  IF hits = {} THEN [winner |-> "null", line |-> << >>]
      ELSE LET c == winningCombinations[CHOOSE i \in hits : \A j \in hits : i >= j]
           IN  [winner |-> b[c[1]], line |-> c]

\* checkWinner comparing only the first two cells of a combination.
checkWinnerTwoCells(b) ==
  LET hits == {i \in 1..Len(winningCombinations) :
                 LET c == winningCombinations[i] IN
                 b[c[1]] # "null" /\ b[c[1]] = b[c[2]]}
  IN  IF hits = {} THEN [winner |-> "null", line |-> << >>]
      ELSE LET c == winningCombinations[CHOOSE i \in hits : \A j \in hits : i <= j]
           IN  [winner |-> b[c[1]], line |-> c]

checkWinner(b) == scanCombinations(b, 1)

\* checkDraw without the test that every cell is filled.
checkDrawAnyBoard(b) == checkWinner(b).winner = "null"

checkDraw(b) == (\A i \in Cells : b[i] # "null") /\ checkWinner(b).winner = "null"

\* getAvailableMoves with the test inverted: the occupied cells.
getAvailableMovesOccupied(b) ==
  SelectSeq([i \in 1..9 |-> IF b[i - 1] # "null" THEN i - 1 ELSE -1],
            LAMBDA x : x # -1)

getAvailableMoves(b) ==
  SelectSeq([i \in 1..9 |-> IF b[i - 1] = "null" THEN i - 1 ELSE -1],
            LAMBDA x : x # -1)

Includes(s, x) == \E i \in 1..Len(s) : s[i] = x

\* Math.floor(Math.random() * n), as a 1-based sequence index.
RandomIndex(r, n) == ((r * n) \div Grain) + 1

Opponent(p) == IF p = "X" THEN "O" ELSE "X"

\* The first available move that gives `mark` a line, as the two scans of
\* makeAIMove find it: the moves m with checkWinner(newBoard).winner = mark.
completingMoves(b, availableMoves, mark) ==
  SelectSeq(availableMoves,
            LAMBDA m : checkWinner([b EXCEPT ![m] = mark]).winner = mark)

\* strategicMove without X's centre preference.
strategicMoveNoCentre(availableMoves, player, r) ==
  LET corners == SelectSeq(<<0, 2, 6, 8>>, LAMBDA c : Includes(availableMoves, c))
      edges == SelectSeq(<<1, 3, 5, 7>>, LAMBDA e : Includes(availableMoves, e))
      fallback == availableMoves[RandomIndex(r, Len(availableMoves))]
  IN  IF player = "X"
      THEN IF Len(corners) > 0 THEN corners[RandomIndex(r, Len(corners))]
           ELSE fallback
      ELSE IF Len(edges) > 0 THEN edges[RandomIndex(r, Len(edges))]
           ELSE fallback

\* The strategic and random choices of makeAIMove.
strategicMove(availableMoves, player, r) ==
  LET corners == SelectSeq(<<0, 2, 6, 8>>, LAMBDA c : Includes(availableMoves, c))
      edges == SelectSeq(<<1, 3, 5, 7>>, LAMBDA e : Includes(availableMoves, e))
      fallback == availableMoves[RandomIndex(r, Len(availableMoves))]
  IN  IF player = "X"
      THEN IF Includes(availableMoves, 4) THEN 4
           ELSE IF Len(corners) > 0 THEN corners[RandomIndex(r, Len(corners))]
           ELSE fallback
      ELSE IF Len(edges) > 0 THEN edges[RandomIndex(r, Len(edges))]
           ELSE fallback

\* makeAIMove without the block scan.
makeAIMoveNoBlock(b, player, r) ==
  LET availableMoves == getAvailableMoves(b)
      wins == completingMoves(b, availableMoves, player)
  IN  IF Len(availableMoves) = 0 THEN -1
      ELSE IF Len(wins) > 0 THEN wins[1]
      ELSE strategicMove(availableMoves, player, r)

\* makeAIMove with the block scan ahead of the win scan.
makeAIMoveBlockFirst(b, player, r) ==
  LET availableMoves == getAvailableMoves(b)
      wins == completingMoves(b, availableMoves, player)
      blocks == completingMoves(b, availableMoves, Opponent(player))
  IN  IF Len(availableMoves) = 0 THEN -1
      ELSE IF Len(blocks) > 0 THEN blocks[1]
      ELSE IF Len(wins) > 0 THEN wins[1]
      ELSE strategicMove(availableMoves, player, r)

makeAIMove(b, player, r) ==
  LET availableMoves == getAvailableMoves(b)
      wins == completingMoves(b, availableMoves, player)
      blocks == completingMoves(b, availableMoves, Opponent(player))
  IN  IF Len(availableMoves) = 0 THEN -1
      ELSE IF Len(wins) > 0 THEN wins[1]
      ELSE IF Len(blocks) > 0 THEN blocks[1]
      ELSE strategicMove(availableMoves, player, r)

\* ---------------------------------------------------- timers and effects
TimerIds == 1..MaxTimers

\* clearTimeout that cancels nothing.
ClearTimeoutNoop(timers, id) == timers

\* clearTimeout(id)
ClearTimeout(timers, id) == {t \in timers : t.id # id}

Min(S) == CHOOSE x \in S : \A y \in S : x <= y

\* The handle setTimeout returns: an id no live timer or cleanup holds.
NewTimerId(used) ==
  IF TimerIds \ used = {} THEN MaxTimers ELSE Min(TimerIds \ used)

\* The auto play condition without isAutoPlaying.
autoPlayConditionIgnoresPause(autoPlaying, st) == st = "playing"

\* The auto play condition without the status test.
autoPlayConditionIgnoresStatus(autoPlaying, st) == autoPlaying

\* if (isAutoPlaying && status === 'playing')
autoPlayCondition(autoPlaying, st) == autoPlaying /\ st = "playing"

\* The auto restart condition testing for a win only.
autoRestartConditionWonOnly(autoPlaying, st) == autoPlaying /\ st = "won"

\* if (isAutoPlaying && status !== 'playing')
autoRestartCondition(autoPlaying, st) == autoPlaying /\ st # "playing"

\* Commit of the render that follows a handler. mt and rt are the timers
\* still pending after the handler; boardReplaced tells whether setBoard was
\* given a new array, which gives makeMove a new identity.
Render(mt, rt, boardReplaced) ==
  LET run1 == \/ boardReplaced
              \/ isAutoPlaying' # isAutoPlaying
              \/ status' # status
              \/ currentPlayer' # currentPlayer
              \/ gameSpeed' # gameSpeed
      run2 == isAutoPlaying' # isAutoPlaying \/ status' # status
      \* cleanups of the effects that re-run
      mt1 == IF run1 THEN ClearTimeout(mt, moveEffect) ELSE mt
      rt1 == IF run1 THEN ClearTimeout(rt, moveEffect) ELSE rt
      mt2 == IF run2 THEN ClearTimeout(mt1, restartEffect) ELSE mt1
      rt2 == IF run2 THEN ClearTimeout(rt1, restartEffect) ELSE rt1
      held1 == IF run1 THEN {} ELSE {moveEffect}
      held2 == IF run2 THEN {} ELSE {restartEffect}
      live == {t.id : t \in mt2} \cup {t.id : t \in rt2} \cup held1 \cup held2
      \* auto play effect
      set1 == run1 /\ autoPlayCondition(isAutoPlaying', status')
      id1 == NewTimerId(live)
      \* auto restart effect
      set2 == run2 /\ autoRestartCondition(isAutoPlaying', status')
      id2 == NewTimerId(live \cup (IF set1 THEN {id1} ELSE {}))
  IN  /\ moveTimers' =
           IF set1
           THEN mt2 \cup {[id |-> id1, board |-> board', player |-> currentPlayer',
                           delay |-> gameSpeed']}
           ELSE mt2
      /\ moveEffect' = IF set1 THEN id1 ELSE IF run1 THEN 0 ELSE moveEffect
      /\ restartTimers' =
           IF set2 THEN rt2 \cup {[id |-> id2, delay |-> RestartDelay]} ELSE rt2
      /\ restartEffect' = IF set2 THEN id2 ELSE IF run2 THEN 0 ELSE restartEffect

\* ------------------------------------------------------------- handlers
Init ==
  /\ board = EmptyBoard
  /\ currentPlayer = "X"
  /\ status = "playing"
  /\ winner = "null"
  /\ winningLine = << >>
  /\ stats = ZeroStats
  /\ isAutoPlaying = TRUE
  /\ gameSpeed = 1000
  /\ moveHistory = << >>
  /\ moveTimers = {[id |-> 1, board |-> EmptyBoard, player |-> "X", delay |-> 1000]}
  /\ restartTimers = {}
  /\ moveEffect = 1
  /\ restartEffect = 0
  /\ moveIndex = << >>
  /\ args = {}
  /\ checked = << >>

\* makeMove(player) with the board of the render that created it.
makeMove(b, player, r) ==
  \E mi \in {makeAIMove(b, player, r)} :
  LET newBoard == [b EXCEPT ![mi] = player]
      res == checkWinner(newBoard)
  IN  /\ moveIndex' = <<mi>>
      /\ IF mi = -1
         THEN UNCHANGED <<board, currentPlayer, status, winner, winningLine,
                          stats, moveHistory>>
         ELSE /\ board' = newBoard
              /\ moveHistory' = Append(moveHistory, [player |-> player, position |-> mi])
              /\ IF res.winner # "null"
                 THEN /\ winner' = res.winner
                      /\ status' = "won"
                      /\ winningLine' = res.line
                      /\ stats' = JsSet(JsSet(stats, WinsKey(res.winner),
                                              JsAdd(JsGet(stats, WinsKey(res.winner)), Num(1))),
                                        "gamesPlayed", JsAdd(stats.gamesPlayed, Num(1)))
                      /\ UNCHANGED currentPlayer
                 ELSE IF checkDraw(newBoard)
                 THEN /\ status' = "draw"
                      /\ stats' = JsSet(JsSet(stats, "draws", JsAdd(stats.draws, Num(1))),
                                        "gamesPlayed", JsAdd(stats.gamesPlayed, Num(1)))
                      /\ UNCHANGED <<currentPlayer, winner, winningLine>>
                 ELSE /\ currentPlayer' = Opponent(player)
                      /\ UNCHANGED <<status, winner, winningLine, stats>>

\* resetGame without setMoveHistory([]).
resetGameKeepHistory ==
  /\ board' = EmptyBoard
  /\ currentPlayer' = "X"
  /\ status' = "playing"
  /\ winner' = "null"
  /\ winningLine' = << >>
  /\ moveHistory' = moveHistory

\* resetGame without setCurrentPlayer('X').
resetGameKeepPlayer ==
  /\ board' = EmptyBoard
  /\ currentPlayer' = currentPlayer
  /\ status' = "playing"
  /\ winner' = "null"
  /\ winningLine' = << >>
  /\ moveHistory' = << >>

resetGame ==
  /\ board' = EmptyBoard
  /\ currentPlayer' = "X"
  /\ status' = "playing"
  /\ winner' = "null"
  /\ winningLine' = << >>
  /\ moveHistory' = << >>

\* resetStats that keeps the number of games played.
resetStatsKeepGames == stats' = [ZeroStats EXCEPT !.gamesPlayed = stats.gamesPlayed]

resetStats == stats' = ZeroStats

\* The auto play effect's timeout fires.
FireMoveTimer(t, r) ==
  /\ args = {}
  /\ t \in moveTimers
  /\ stats.gamesPlayed.n < MaxGames
  /\ makeMove(t.board, t.player, r)
  /\ UNCHANGED <<isAutoPlaying, gameSpeed, args, checked>>
  /\ IF moveIndex' = <<-1>>
     THEN /\ moveTimers' = moveTimers \ {t}
          /\ UNCHANGED <<restartTimers, moveEffect, restartEffect>>
     ELSE Render(moveTimers \ {t}, restartTimers, TRUE)

\* The auto restart effect's timeout fires.
FireRestartTimer(t) ==
  /\ args = {}
  /\ t \in restartTimers
  /\ resetGame
  /\ UNCHANGED <<stats, isAutoPlaying, gameSpeed, moveIndex, args, checked>>
  /\ Render(moveTimers, restartTimers \ {t}, TRUE)

\* onClick of the Restart Game button.
ClickRestart ==
  /\ args = {}
  /\ resetGame
  /\ UNCHANGED <<stats, isAutoPlaying, gameSpeed, moveIndex, args, checked>>
  /\ Render(moveTimers, restartTimers, TRUE)

\* onClick of the Pause / Play button.
ClickTogglePlay ==
  /\ args = {}
  /\ isAutoPlaying' = ~isAutoPlaying
  /\ UNCHANGED <<board, currentPlayer, status, winner, winningLine, stats,
                 gameSpeed, moveHistory, moveIndex, args, checked>>
  /\ Render(moveTimers, restartTimers, FALSE)

\* onChange of the speed select.
ChangeSpeed(s) ==
  /\ args = {}
  /\ s # gameSpeed
  /\ gameSpeed' = s
  /\ UNCHANGED <<board, currentPlayer, status, winner, winningLine, stats,
                 isAutoPlaying, moveHistory, moveIndex, args, checked>>
  /\ Render(moveTimers, restartTimers, FALSE)

\* onClick of the Reset Stats button.
ClickResetStats ==
  /\ args = {}
  /\ resetStats
  /\ UNCHANGED <<board, currentPlayer, status, winner, winningLine,
                 isAutoPlaying, gameSpeed, moveHistory, moveIndex, args, checked>>
  /\ Render(moveTimers, restartTimers, FALSE)

Next ==
  \/ \E t \in moveTimers, r \in 0..(Grain - 1) : FireMoveTimer(t, r)
  \/ \E t \in restartTimers : FireRestartTimer(t)
  \/ ClickRestart
  \/ ClickTogglePlay
  \/ \E s \in Speeds : ChangeSpeed(s)
  \/ ClickResetStats

Spec == Init /\ [][Next]_vars

TypeOK ==
  /\ board \in [Cells -> Marks \cup {"null"}]
  /\ currentPlayer \in Marks
  /\ status \in {"playing", "won", "draw"}
  /\ winner \in Marks \cup {"null"}
  /\ isAutoPlaying \in BOOLEAN
  /\ gameSpeed \in Speeds
  /\ moveEffect \in 0..MaxTimers
  /\ restartEffect \in 0..MaxTimers
  /\ Cardinality({t.id : t \in moveTimers} \cup {t.id : t \in restartTimers}
                 \cup {moveEffect, restartEffect}) <= MaxTimers
\* ----------------------------- makeMove and makeAIMove on their own inputs
\* makeMove passes makeAIMove the board of a render in which status is
\* "playing" (or, for the defensive -1 return, a full board): no winning
\* combination is complete on it.
HasLine(b, mark) ==
  \E i \in 1..Len(winningCombinations) :
    \A k \in 1..3 : b[winningCombinations[i][k]] = mark

Boards == {b \in [Cells -> Marks \cup {"null"}] : ~HasLine(b, "X") /\ ~HasLine(b, "O")}

PolicyInit ==
  /\ board = EmptyBoard
  /\ currentPlayer = "X"
  /\ status = "playing"
  /\ winner = "null"
  /\ winningLine = << >>
  /\ stats = ZeroStats
  /\ isAutoPlaying = TRUE
  /\ gameSpeed = 1000
  /\ moveHistory = << >>
  /\ moveTimers = {[id |-> 1, board |-> EmptyBoard, player |-> "X", delay |-> 1000]}
  /\ restartTimers = {}
  /\ moveEffect = 1
  /\ restartEffect = 0
  /\ moveIndex = << >>
  /\ checked = << >>
  /\ \E b \in Boards, p \in Marks : args = {[board |-> b, player |-> p]}

\* One call makeMove(player), and with it makeAIMove(board, player), by a
\* callback that closed over the drawn board.
CallMakeMove(r) ==
  /\ moveIndex = << >>
  /\ \E a \in args : makeMove(a.board, a.player, r)
  /\ UNCHANGED <<isAutoPlaying, gameSpeed,
                 moveTimers, restartTimers, moveEffect, restartEffect, args, checked>>

PolicyNext == \E r \in 0..(Grain - 1) : CallMakeMove(r)

PolicySpec == PolicyInit /\ [][PolicyNext]_vars

\* The component together with the calls of makeMove on drawn inputs.
AppPolicyInit == Init \/ PolicyInit

AppPolicyNext == Next \/ PolicyNext

AppPolicySpec == AppPolicyInit /\ [][AppPolicyNext]_vars
\* --------------------------------------------------------------- claims
Occupied(b) == {i \in Cells : b[i] # "null"}

RECURSIVE Replay(_, _)
Replay(h, b) ==
  IF Len(h) = 0 THEN b
  ELSE Replay(Tail(h), [b EXCEPT ![Head(h).position] = Head(h).player])

\* A step in which makeMove applied a move.
MoveApplied == Len(moveHistory') = Len(moveHistory) + 1

\* C1: in every reachable state, replaying moveHistory in order onto an
\* empty board yields the current board; the history is as long as the
\* number of non-empty cells and names no position twice.
C1_HistoryReplaysBoard ==
  /\ Replay(moveHistory, EmptyBoard) = board
  /\ Len(moveHistory) = Cardinality(Occupied(board))
  /\ \A i, j \in 1..Len(moveHistory) :
       i # j => moveHistory[i].position # moveHistory[j].position

\* A game was finished and reset, and the next one has been played to a full board.
C1_Witness ==
  /\ args = {}
  /\ stats.gamesPlayed.n >= 2
  /\ status = "draw"
  /\ Len(moveHistory) = 9

\* C2: a move that completes a line for P adds exactly 1 to P's own win
\* counter (xWins for X, oWins for O) and to gamesPlayed, and leaves the
\* other win counter and draws unchanged.
C2_WinCountsForWinner ==
  [][(MoveApplied /\ status' = "won") =>
       LET p == moveHistory'[Len(moveHistory')].player IN
       /\ stats'.xWins = (IF p = "X" THEN Num(stats.xWins.n + 1) ELSE stats.xWins)
       /\ stats'.oWins = (IF p = "O" THEN Num(stats.oWins.n + 1) ELSE stats.oWins)
       /\ stats'.gamesPlayed = Num(stats.gamesPlayed.n + 1)
       /\ stats'.draws = stats.draws]_vars

\* C3: status is "won" exactly when winner is X or O; then winningLine is
\* one of the 8 combinations and its three cells hold winner's mark;
\* otherwise winner is null and winningLine is empty; a board on which a
\* line is complete is "won" and never a draw, also when the move that
\* completed the line filled the last empty cell.
C3_StatusWinnerLine ==
  /\ (status = "won") <=> (winner \in Marks)
  /\ status = "won" =>
       /\ \E i \in 1..Len(winningCombinations) : winningLine = winningCombinations[i]
       /\ \A k \in 1..3 : board[winningLine[k]] = winner
  /\ status \in {"playing", "draw"} => (winner = "null" /\ winningLine = << >>)
  /\ status = "draw" => (Occupied(board) = Cells /\ checkWinner(board).winner = "null")
  /\ (\E m \in Marks : \E i \in 1..Len(winningCombinations) :
        \A k \in 1..3 : board[winningCombinations[i][k]] = m) => status = "won"

\* A move filled the last empty cell and completed a line.
C3_Witness == status = "won" /\ winner \in Marks /\ Occupied(board) = Cells
\* The empty cells that complete one of the 8 combinations for `mark`.
WinningCells(b, mark) ==
  {m \in Cells : b[m] = "null" /\ HasLine([b EXCEPT ![m] = mark], mark)}

LastMove == moveHistory'[Len(moveHistory')]

\* C4: makeAIMove returns an empty cell of the board it is given, or -1, and
\* -1 only on a full board; every pending move timer holds a board with an
\* empty cell, makeMove never takes the -1 branch, and a move is written to
\* a cell that was empty and changes no other cell.
C4_MoveTargetsEmptyCell ==
  /\ [](/\ \A a \in args :
             moveIndex # << >> =>
               IF Occupied(a.board) = Cells
               THEN moveIndex[1] = -1
               ELSE moveIndex[1] \in Cells /\ a.board[moveIndex[1]] = "null"
        /\ \A t \in moveTimers : Occupied(t.board) # Cells
        /\ args = {} => moveIndex # <<-1>>)
  /\ [][(args = {} /\ MoveApplied) =>
          /\ board[LastMove.position] = "null"
          /\ board'[LastMove.position] = LastMove.player
          /\ \A i \in Cells \ {LastMove.position} : board'[i] = board[i]]_vars

\* makeAIMove was called on a full board and returned -1.
C4_Witness == \E a \in args : Occupied(a.board) = Cells /\ moveIndex = <<-1>>

BlockExample == [i \in Cells |-> IF i \in {0, 1} THEN "X" ELSE "null"]

\* C5: when the player has no cell that completes a line for itself and the
\* opponent has one, makeAIMove returns the lowest-index cell that would
\* complete a line for the opponent; on [X,X,_,_,_,_,_,_,_] with O to move
\* it returns 2.
C5_BlocksLowestThreat ==
  \A a \in args :
    moveIndex # << >> =>
      /\ (WinningCells(a.board, a.player) = {}
            /\ WinningCells(a.board, Opponent(a.player)) # {})
         => moveIndex[1] = Min(WinningCells(a.board, Opponent(a.player)))
      /\ (a.board = BlockExample /\ a.player = "O") => moveIndex[1] = 2

\* O, with two threats of X to choose from and no win of its own, has answered.
C5_Witness ==
  \E a \in args :
    /\ a.player = "O"
    /\ WinningCells(a.board, "O") = {}
    /\ Cardinality(WinningCells(a.board, "X")) >= 2
    /\ moveIndex # << >>

\* C6: when some empty cell completes a line for the player, makeAIMove
\* returns the lowest-index such cell, also when the opponent has a winning
\* cell too; and in the component a move made while currentPlayer has such a
\* cell sets status to "won" and winner to currentPlayer.
C6_WinBeforeBlock ==
  /\ [](\A a \in args :
          (moveIndex # << >> /\ WinningCells(a.board, a.player) # {})
            => moveIndex[1] = Min(WinningCells(a.board, a.player)))
  /\ [][(args = {} /\ status = "playing" /\ MoveApplied
           /\ WinningCells(board, currentPlayer) # {})
          => /\ LastMove.position = Min(WinningCells(board, currentPlayer))
             /\ status' = "won"
             /\ winner' = currentPlayer]_vars

\* Both sides had a winning cell, the opponent's at a lower index, and the
\* player has been answered.
C6_Witness ==
  \E a \in args :
    /\ WinningCells(a.board, a.player) # {}
    /\ WinningCells(a.board, Opponent(a.player)) # {}
    /\ Min(WinningCells(a.board, Opponent(a.player))) < Min(WinningCells(a.board, a.player))
    /\ moveIndex # << >>

EmptyCorners(b) == {c \in {0, 2, 6, 8} : b[c] = "null"}
EmptyEdges(b) == {e \in {1, 3, 5, 7} : b[e] = "null"}
\* The cells the positional preference of `player` allows on b.
Preferred(b, player) ==
  IF player = "X"
  THEN IF b[4] = "null" THEN {4} ELSE EmptyCorners(b)
  ELSE EmptyEdges(b)

Quiet(a) ==
  WinningCells(a.board, a.player) = {} /\ WinningCells(a.board, Opponent(a.player)) = {}

\* C7: with no winning and no blocking cell, X gets 4 if it is empty and
\* else an empty corner, O gets an empty edge; every empty corner or edge
\* is a possible result; another empty cell is returned only when no
\* preferred cell is empty.
C7_PositionalPreference ==
  \A a \in args :
    Quiet(a) =>
      /\ moveIndex # << >> =>
           IF Preferred(a.board, a.player) # {}
           THEN moveIndex[1] \in Preferred(a.board, a.player)
           ELSE IF Occupied(a.board) = Cells THEN moveIndex[1] = -1
           ELSE moveIndex[1] \in Cells \ Occupied(a.board)
      /\ \A c \in Preferred(a.board, a.player) :
           \E r \in 0..(Grain - 1) : makeAIMove(a.board, a.player, r) = c

\* X, with the centre taken and corners 0 and 8 empty, was given corner 8.
C7_Witness ==
  \E a \in args :
    /\ Quiet(a)
    /\ a.player = "X"
    /\ a.board[4] # "null"
    /\ {0, 8} \subseteq EmptyCorners(a.board)
    /\ moveIndex = <<8>>

TimerStep ==
  \/ \E t \in moveTimers, r \in 0..(Grain - 1) : FireMoveTimer(t, r)
  \/ \E t \in restartTimers : FireRestartTimer(t)

\* C8: while isAutoPlaying is false no timer callback runs and the game and
\* the stats change only by Restart Game or Reset Stats; switching autoplay
\* off leaves no timer pending; and no move is applied while status is
\* "won" or "draw".
C8_PausedMeansNoTimerStep ==
  [][/\ ~isAutoPlaying => ~TimerStep
     /\ (~isAutoPlaying /\ ~UNCHANGED <<gameVars, stats>>)
          => (ClickRestart \/ ClickResetStats)
     /\ (isAutoPlaying /\ ~isAutoPlaying')
          => (moveTimers' = {} /\ restartTimers' = {})
     /\ status # "playing" => ~MoveApplied]_vars

\* Autoplay was switched off in the middle of a game.
C8_Witness ==
  /\ args = {}
  /\ ~isAutoPlaying
  /\ status = "playing"
  /\ Len(moveHistory) \in 1..8

\* C9: at most one timer is pending, of either kind; a pending move timer
\* was scheduled by the current render (its callback holds the current
\* board, currentPlayer and gameSpeed) and a pending restart timer belongs
\* to a finished game with autoplay on.
C9_AtMostOneTimer ==
  /\ Cardinality(moveTimers) + Cardinality(restartTimers) <= 1
  /\ \A t \in moveTimers :
       /\ isAutoPlaying /\ status = "playing"
       /\ t.board = board /\ t.player = currentPlayer /\ t.delay = gameSpeed
       /\ moveEffect = t.id
  /\ \A t \in restartTimers :
       /\ isAutoPlaying /\ status # "playing"
       /\ restartEffect = t.id

\* A move timer rescheduled mid-game after manual restarts and a speed change.
C9_Witness ==
  /\ args = {}
  /\ moveTimers # {}
  /\ gameSpeed = 200
  /\ Len(moveHistory) >= 2
  /\ stats.gamesPlayed.n >= 1

ResetStep == ClickRestart \/ \E t \in restartTimers : FireRestartTimer(t)

\* C10: resetGame, from any state, leaves an empty board, an empty history,
\* status "playing", no winner, no winning line and X to move, and does not
\* change stats, isAutoPlaying or gameSpeed.
C10_ResetGameEffect ==
  [][ResetStep =>
       /\ board' = EmptyBoard
       /\ moveHistory' = << >>
       /\ status' = "playing"
       /\ winner' = "null"
       /\ winningLine' = << >>
       /\ currentPlayer' = "X"
       /\ UNCHANGED <<stats, isAutoPlaying, gameSpeed>>]_vars

\* A fresh game with autoplay off and earlier games still counted.
C10_Witness ==
  /\ args = {}
  /\ board = EmptyBoard
  /\ moveHistory = << >>
  /\ currentPlayer = "X"
  /\ status = "playing"
  /\ ~isAutoPlaying
  /\ stats.gamesPlayed.n >= 1
\* C11: resetStats sets xWins, oWins, draws and gamesPlayed to 0 and changes
\* nothing else: the game, isAutoPlaying, gameSpeed and the pending timer
\* stay as they are, so a game in progress continues; and a finished game
\* is not counted again afterwards.
C11_ResetStatsEffect ==
  [][/\ ClickResetStats =>
          /\ stats'.xWins = Num(0) /\ stats'.oWins = Num(0)
          /\ stats'.draws = Num(0) /\ stats'.gamesPlayed = Num(0)
          /\ UNCHANGED <<gameVars, isAutoPlaying, gameSpeed>>
          /\ UNCHANGED <<moveTimers, restartTimers>>
     /\ (status # "playing" /\ stats.gamesPlayed = Num(0))
          => stats'.gamesPlayed = Num(0)]_vars

\* The stats were reset while a won game was still on the board.
C11_Witness ==
  /\ args = {}
  /\ status = "won"
  /\ stats = ZeroStats
  /\ restartTimers # {}

Count(b, mark) == Cardinality({i \in Cells : b[i] = mark})

\* C12: X has as many marks as O or one more; while status is "playing"
\* currentPlayer is X exactly when the counts are equal; the history starts
\* with X and alternates; the move that ends a game does not flip
\* currentPlayer.
C12_TurnsAlternate ==
  /\ [](/\ Count(board, "X") - Count(board, "O") \in {0, 1}
        /\ status = "playing" =>
             /\ (currentPlayer = "X") <=> (Count(board, "X") = Count(board, "O"))
             /\ (currentPlayer = "O") <=> (Count(board, "X") = Count(board, "O") + 1)
        /\ Len(moveHistory) > 0 => moveHistory[1].player = "X"
        /\ \A i \in 1..(Len(moveHistory) - 1) :
             moveHistory[i].player # moveHistory[i + 1].player)
  /\ [][(MoveApplied /\ status' # "playing")
          => (currentPlayer' = currentPlayer /\ currentPlayer' = LastMove.player)]_vars

\* A second counted game was ended by a move of X.
C12_Witness ==
  /\ args = {}
  /\ status # "playing"
  /\ currentPlayer = "X"
  /\ stats.gamesPlayed.n >= 2

\* C13: a move that fills the last empty cell without completing a
\* combination sets status to "draw", leaves winner null and winningLine
\* empty, adds 1 to draws and to gamesPlayed and leaves xWins and oWins;
\* status is "draw" only on a full board.
C13_DrawOnFullBoard ==
  /\ [](status = "draw" => Occupied(board) = Cells)
  /\ [][(MoveApplied /\ Occupied(board') = Cells
           /\ ~HasLine(board', "X") /\ ~HasLine(board', "O"))
          => /\ status' = "draw"
             /\ winner' = "null"
             /\ winningLine' = << >>
             /\ stats'.draws = Num(stats.draws.n + 1)
             /\ stats'.gamesPlayed = Num(stats.gamesPlayed.n + 1)
             /\ stats'.xWins = stats.xWins
             /\ stats'.oWins = stats.oWins]_vars

\* The second counted game ended in a draw.
C13_Witness ==
  /\ args = {}
  /\ status = "draw"
  /\ stats.draws.n >= 1
  /\ stats.gamesPlayed.n = 2

\* C14: once status is "won" or "draw" the game (board, moveHistory,
\* currentPlayer, winner, winningLine, status) changes only by resetGame,
\* and stats only by Reset Stats; the move that ends the game adds exactly 1
\* to gamesPlayed.
C14_TerminalAbsorbing ==
  [][/\ (status # "playing" /\ ~UNCHANGED gameVars) => ResetStep
     /\ (status # "playing" /\ ~UNCHANGED stats) => ClickResetStats
     /\ (status = "playing" /\ status' # "playing")
          => stats'.gamesPlayed = Num(stats.gamesPlayed.n + 1)]_vars

\* A drawn game that stays on the board with autoplay off and another speed.
C14_Witness ==
  /\ args = {}
  /\ status = "draw"
  /\ ~isAutoPlaying
  /\ gameSpeed = 500
\* ------------------------------------------------- the unattended run
\* Nobody touches the controls: only the two timeouts run, and a pending
\* timeout fires once its delay has passed.
FireSomeMoveTimer == \E t \in moveTimers, r \in 0..(Grain - 1) : FireMoveTimer(t, r)

FireSomeRestartTimer == \E t \in restartTimers : FireRestartTimer(t)

LiveNext == FireSomeMoveTimer \/ FireSomeRestartTimer

LiveSpec ==
  /\ Init
  /\ [][LiveNext]_vars
  /\ WF_vars(FireSomeMoveTimer)
  /\ WF_vars(FireSomeRestartTimer)

GamesPlayed == stats.gamesPlayed.n

\* C15: with autoplay on, some timeout is always pending; a game takes at
\* most 9 moves and always reaches "won" or "draw"; a finished game is
\* always followed by the automatic reset to an empty board with X to
\* move; and gamesPlayed keeps growing (here: up to MaxGames).
C15_PlayContinues ==
  /\ [](/\ isAutoPlaying => (moveTimers # {} \/ restartTimers # {})
        /\ Len(moveHistory) <= 9
        /\ Len(moveHistory) = 9 => status # "playing")
  /\ (status = "playing" /\ GamesPlayed < MaxGames) ~> (status # "playing")
  /\ (status # "playing")
       ~> (status = "playing" /\ board = EmptyBoard /\ currentPlayer = "X"
             /\ moveHistory = << >>)
  /\ \A n \in 0..(MaxGames - 1) : (GamesPlayed = n) ~> (GamesPlayed = n + 1)

\* The last counted game has been reset automatically.
C15_Witness ==
  /\ GamesPlayed = MaxGames
  /\ status = "playing"
  /\ board = EmptyBoard
  /\ moveTimers # {}
\* C16: O never wins: in every reachable state winner is X or null, and
\* every finished game is a win of X or a draw.
C16_ONeverWins ==
  /\ winner # "O"
  /\ ~HasLine(board, "O")
  /\ status # "playing" => ((status = "won" /\ winner = "X") \/ status = "draw")

\* X has won a game that went to seven moves, after earlier games.
C16_Witness ==
  /\ args = {}
  /\ status = "won"
  /\ winner = "X"
  /\ Len(moveHistory) = 7
  /\ GamesPlayed >= 2

\* C17: gamesPlayed = xWins + oWins + draws in every reachable state.
C17_TotalsConsistent ==
  stats.gamesPlayed = JsAdd(JsAdd(stats.xWins, stats.oWins), stats.draws)

\* C19: the first move of every game is X on cell 4 and the second is O on
\* an edge cell; no board has a mark while cell 4 is empty.
C19_SameOpening ==
  /\ Len(moveHistory) >= 1 => moveHistory[1] = [player |-> "X", position |-> 4]
  /\ Len(moveHistory) >= 2 =>
       (moveHistory[2].player = "O" /\ moveHistory[2].position \in {1, 3, 5, 7})
  /\ board[4] = "null" => board = EmptyBoard

\* The opening of a later game, with O on edge 7.
C19_Witness ==
  /\ args = {}
  /\ GamesPlayed >= 1
  /\ Len(moveHistory) = 2
  /\ moveHistory[2].position = 7
\* ------------------------------------------- checkWinner on its own inputs
AllBoards == [Cells -> Marks \cup {"null"}]

WinnerInit ==
  /\ board = EmptyBoard
  /\ currentPlayer = "X"
  /\ status = "playing"
  /\ winner = "null"
  /\ winningLine = << >>
  /\ stats = ZeroStats
  /\ isAutoPlaying = TRUE
  /\ gameSpeed = 1000
  /\ moveHistory = << >>
  /\ moveTimers = {[id |-> 1, board |-> EmptyBoard, player |-> "X", delay |-> 1000]}
  /\ restartTimers = {}
  /\ moveEffect = 1
  /\ restartEffect = 0
  /\ moveIndex = << >>
  /\ checked = << >>
  /\ \E b \in AllBoards : args = {[board |-> b]}

\* One call checkWinner(board) on the drawn board.
CallCheckWinner ==
  /\ checked = << >>
  /\ \E a \in args : checked' = <<checkWinner(a.board)>>
  /\ UNCHANGED <<board, currentPlayer, status, winner, winningLine, stats,
                 isAutoPlaying, gameSpeed, moveHistory,
                 moveTimers, restartTimers, moveEffect, restartEffect,
                 moveIndex, args>>

WinnerNext == CallCheckWinner

WinnerSpec == WinnerInit /\ [][WinnerNext]_vars

ScanOrder ==
  << <<0, 1, 2>>, <<3, 4, 5>>, <<6, 7, 8>>,
     <<0, 3, 6>>, <<1, 4, 7>>, <<2, 5, 8>>,
     <<0, 4, 8>>, <<2, 4, 6>> >>

\* The positions in ScanOrder of the combinations whose cells hold one mark.
Uniform(b) ==
  {i \in 1..Len(ScanOrder) :
     \E m \in Marks : \A k \in 1..3 : b[ScanOrder[i][k]] = m}

\* C18: on every board checkWinner returns the first combination, in the
\* order rows, columns, diagonals, whose three cells hold the same mark,
\* with that mark; it returns null and an empty line exactly when no
\* combination is uniform; of two completed lines the earlier is reported.
C18_FirstLineInScanOrder ==
  \A a \in args :
    checked # << >> =>
      IF Uniform(a.board) = {}
      THEN checked[1] = [winner |-> "null", line |-> << >>]
      ELSE /\ checked[1].line = ScanOrder[Min(Uniform(a.board))]
           /\ checked[1].winner = a.board[ScanOrder[Min(Uniform(a.board))][1]]
           /\ checked[1].winner \in Marks

\* A board on which X holds a row and a diagonal at once has been scanned.
C18_Witness ==
  \E a \in args :
    /\ {1, 7} \subseteq Uniform(a.board)
    /\ a.board[4] = "X"
    /\ checked # << >>
    /\ checked[1].line = <<0, 1, 2>>
====
